---- MODULE Spec2Model ----
(***************************************************************************)
(* The /api/execute handler of src/main.py (execute_code, lines 2207-2271) *)
(* as a state machine: one handler invocation per worker thread, the       *)
(* process-wide sys.stdout, the StringIO capture buffers, and the Program  *)
(* evaluated by exec() statement by statement.                             *)
(*                                                                         *)
(* Text (Program source, captured output, rendered values, error messages) *)
(* is a sequence of atoms.  An atom is either one whitespace character     *)
(* (" " or "\n") or a chunk: a run of characters that neither starts nor   *)
(* ends with whitespace.  strip(), split('\n') and startswith('#') act on  *)
(* the atom sequence exactly as they act on the characters.                *)
(***************************************************************************)
EXTENDS Integers, Sequences, FiniteSets, TLC

\* Bounds of the model.
MaxLines == 2       \* physical lines of a submitted Program
MaxRuns == 2        \* requests served in one behaviour
MaxConcLines == 1   \* physical lines of a Program when two workers serve at once
MaxLogs == 2        \* print calls of the other request handlers in one behaviour

Threads == {1, 2}   \* worker threads of the WSGI server

VARIABLES
    workers,     \* the threads that serve requests
    catalog,     \* the Program texts clients submit: their lines and their length
    served,      \* requests accepted so far
    sys_stdout,  \* the process-wide sink: 0 is the original, n > 0 a StringIO
    heap,        \* contents of the live StringIO objects
    pc,          \* each thread's position in execute_code
    code,        \* request.json['code']
    old_stdout,  \* the handler's local old_stdout
    result,      \* the handler's local result dict
    local_vars,  \* the handler's local local_vars dict
    lines,       \* the handler's local lines list
    frame,       \* position of exec() inside the compiled Program
    exc,         \* the exception the try block raised, NoExc when none
    host_builtins,  \* the names of the host's builtins module Programs have rebound
    printed,     \* history: the text each run's Program has written so far
    terminal,    \* the text written to the original sink
    logged       \* history: the print calls other handlers have made so far

vars == <<workers, catalog, served, sys_stdout, heap, pc, code, old_stdout,
          result, local_vars, lines, frame, exc, host_builtins, printed, terminal,
          logged>>

---------------------------------------------------------------------------
\* Text primitives.

IsSpace(a) == a \in {" ", "\n"}

RECURSIVE LStrip(_)
LStrip(s) == IF s # <<>> /\ IsSpace(Head(s)) THEN LStrip(Tail(s)) ELSE s

RECURSIVE RStrip(_)
RStrip(s) ==
    IF s # <<>> /\ IsSpace(s[Len(s)]) THEN RStrip(SubSeq(s, 1, Len(s) - 1)) ELSE s

\* str.strip()
Strip(s) == RStrip(LStrip(s))

\* The chunks whose first character is '#'.
HashChunks == {"# c"}

\* str.startswith('#')
StartsWithHash(s) == s # <<>> /\ s[1] \in HashChunks

\* str.split('\n')
RECURSIVE Split(_)
Split(s) ==
    LET brk == {i \in 1..Len(s) : s[i] = "\n"}
    IN  IF brk = {} THEN <<s>>
        ELSE LET i == CHOOSE j \in brk : \A k \in brk : j <= k
             IN  <<SubSeq(s, 1, i - 1)>> \o Split(SubSeq(s, i + 1, Len(s)))

\* '\n'.join(ls)
RECURSIVE Join(_)
Join(ls) ==
    IF ls = <<>> THEN <<>>
    ELSE IF Len(ls) = 1 THEN ls[1]
    ELSE ls[1] \o <<"\n">> \o Join(Tail(ls))

Digit == <<"0", "1", "2", "3", "4", "5", "6", "7", "8", "9">>

\* str(n) of an int
RECURSIVE IntText(_)
IntText(n) ==
    IF n < 0 THEN <<"-">> \o IntText(-n)
    ELSE IF n < 10 THEN <<Digit[n + 1]>>
    ELSE IntText(n \div 10) \o <<Digit[(n % 10) + 1]>>

---------------------------------------------------------------------------
\* Values of the evaluated language.

IntV(n) == [t |-> "int", v |-> n]
FloatV(n) == [t |-> "float", v |-> n]         \* the float n.0
StrV(s) == [t |-> "str", v |-> s]
BoolV(b) == [t |-> "bool", v |-> b]
NoneV == [t |-> "NoneType", v |-> 0]
BuiltinV(f) == [t |-> "builtin", v |-> f]     \* a primitive of the Capability Set
FunctionV(a) == [t |-> "function", v |-> a]   \* the lambda bound to input, living at address a
RangeV(n) == [t |-> "range", v |-> n]
TypeV(c) == [t |-> "type", v |-> c]           \* a host class object
DictV(d) == [t |-> "dict", v |-> d]           \* the dict given to exec() as __builtins__

\* The addresses the allocator may give the lambda of one exec() call.
Addresses == {"0x7f01", "0x7f02"}

\* str(value)
RECURSIVE Str(_)
Str(val) ==
    CASE val.t = "int" -> IntText(val.v)
      [] val.t = "float" -> IntText(val.v) \o <<".0">>
      [] val.t = "str" -> val.v
      [] val.t = "bool" -> IF val.v THEN <<"True">> ELSE <<"False">>
      [] val.t = "NoneType" -> <<"None">>
      [] val.t = "builtin" -> <<"<built-in function", " ", val.v, ">">>
      [] val.t = "range" -> <<"range(0,", " ">> \o IntText(val.v) \o <<")">>
      [] val.t = "type" -> <<"<class '", val.v, "'>">>
      [] val.t = "function" ->
             <<"<function execute_code.<locals>.<lambda> at", " ", val.v, ">">>
      \* the values the dict of the modelled runs holds render alike under
      \* str() and repr()
      [] val.t = "dict" ->
             <<"{'print':", " ">> \o Str(val.v["print"]) \o <<",", " ", "'input':", " ">>
                 \o Str(val.v["input"]) \o
             <<",", " ",
               "'range': <class 'range'>, 'len': <built-in function len>, 'int': <class 'int'>, 'float': <class 'float'>, 'str': <class 'str'>, 'abs': <built-in function abs>, 'min': <built-in function min>, 'max': <built-in function max>, 'sum': <built-in function sum>, 'True': True, 'False': False, 'None': None}">>

\* repr(value): the debug rendering
Repr(val) == IF val.t = "str" THEN <<"'">> \o val.v \o <<"'">> ELSE Str(val)

\* Truth value of an object
Truthy(val) ==
    CASE val.t \in {"int", "float", "range"} -> val.v # 0
      [] val.t = "str" -> val.v # <<>>
      [] val.t = "bool" -> val.v
      [] val.t = "NoneType" -> FALSE
      [] OTHER -> TRUE

---------------------------------------------------------------------------
\* Exceptions.

NoExc == [cls |-> "", args |-> <<>>, lineno |-> 0]
Raise(cls, msg) == [cls |-> cls, args |-> msg, lineno |-> 0]
RaiseAt(cls, msg, n) == [cls |-> cls, args |-> msg, lineno |-> n]

\* The classes derived from Exception: what `except Exception` catches.
ExceptionClasses ==
    {"NameError", "ZeroDivisionError", "SyntaxError", "IndentationError",
     "AssertionError", "AttributeError", "TypeError"}

IsException(e) == e.cls \in ExceptionClasses

\* str(e): the message, and for a SyntaxError its place in the text
StrExc(e) ==
    IF e.cls \in {"SyntaxError", "IndentationError"}
    THEN e.args \o <<" ", "(<string>,", " ", "line", " ">> \o IntText(e.lineno) \o <<")">>
    ELSE e.args

---------------------------------------------------------------------------
\* The evaluated language: the statement forms of the block palette
\* (BLOCK_CATEGORIES) and the faults a Program text can raise under exec().

Const(val) == [e |-> "const", v |-> val]
Name(id) == [e |-> "name", id |-> id]
Call(fn, args) == [e |-> "call", fn |-> fn, args |-> args]   \* fn(args)
\* [c for c in ().__class__.__base__.__subclasses__() if c.__name__ == cls][0]
Subclass(cls) == [e |-> "subclass", cls |-> cls]

Assign(id, expr) == [op |-> "assign", name |-> id, expr |-> expr]
AugDiv(id, expr) == [op |-> "augdiv", name |-> id, expr |-> expr]
ExprStmt(expr) == [op |-> "expr", expr |-> expr]
AssertStmt(expr) == [op |-> "assert", expr |-> expr]
RaiseStmt(expr) == [op |-> "raise", expr |-> expr]
ForStmt(id, expr) == [op |-> "for", name |-> id, expr |-> expr, body |-> <<>>]
WhileStmt(expr) == [op |-> "while", expr |-> expr, body |-> <<>>]
\* <a function of the host>.__globals__['__builtins__'][id] = expr
HostStore(id, expr) == [op |-> "hoststore", name |-> id, expr |-> expr]
Malformed(msg) == [op |-> "malformed", msg |-> msg]

\* The Program text that raises the root exception class, reached from a literal.
RaiseBase ==
    "raise [c for c in ().__class__.__base__.__subclasses__() if c.__name__ == 'BaseException'][0]()"

\* The Program text that rebinds print in the builtins module of the host,
\* reached from a literal.
RebindHostPrint ==
    "[c for c in ().__class__.__base__.__subclasses__() if c.__name__ == 'Codec'][0].encode.__globals__['__builtins__']['print'] = 5"

\* What the parser makes of each chunk of Program text.
Grammar ==
    [c \in {"x = 5", "print(x)", "print('a')", "x /= 0", "print(undefined_name)",
            "if x", "assert False", RaiseBase, "x = __builtins__",
            "for i in range(2):", "print(i)", "_t = 1",
            "print = 5", "x = input('p')", "x = input()", "x = input",
            "for _ in range(2):", "print()", "print(' a ')", RebindHostPrint,
            "while True:", "while False:", "i = 5", "x = round(1)"} |->
        CASE c = "x = 5" -> Assign("x", Const(IntV(5)))
          [] c = "x = round(1)" ->
                 Assign("x", Call(Name("round"), <<Const(IntV(1))>>))
          [] c = "i = 5" -> Assign("i", Const(IntV(5)))
          [] c = "print = 5" -> Assign("print", Const(IntV(5)))
          [] c = "x = input('p')" ->
                 Assign("x", Call(Name("input"), <<Const(StrV(<<"p">>))>>))
          [] c = "x = input()" -> Assign("x", Call(Name("input"), <<>>))
          [] c = "x = input" -> Assign("x", Name("input"))
          [] c = "for _ in range(2):" ->
                 ForStmt("_", Call(Name("range"), <<Const(IntV(2))>>))
          [] c = "while True:" -> WhileStmt(Const(BoolV(TRUE)))
          [] c = "while False:" -> WhileStmt(Const(BoolV(FALSE)))
          [] c = "print()" -> ExprStmt(Call(Name("print"), <<>>))
          [] c = "print(' a ')" ->
                 ExprStmt(Call(Name("print"), <<Const(StrV(<<" ", "a", " ">>))>>))
          [] c = RebindHostPrint -> HostStore("print", Const(IntV(5)))
          [] c = "_t = 1" -> Assign("_t", Const(IntV(1)))
          [] c = "print(x)" -> ExprStmt(Call(Name("print"), <<Name("x")>>))
          [] c = "print(i)" -> ExprStmt(Call(Name("print"), <<Name("i")>>))
          [] c = "print('a')" -> ExprStmt(Call(Name("print"), <<Const(StrV(<<"a">>))>>))
          [] c = "x /= 0" -> AugDiv("x", Const(IntV(0)))
          [] c = "print(undefined_name)" ->
                 ExprStmt(Call(Name("print"), <<Name("undefined_name")>>))
          [] c = "if x" -> Malformed(<<"expected ':'">>)
          [] c = "assert False" -> AssertStmt(Const(BoolV(FALSE)))
          [] c = RaiseBase -> RaiseStmt(Call(Subclass("BaseException"), <<>>))
          [] c = "x = __builtins__" -> Assign("x", Name("__builtins__"))
          [] c = "for i in range(2):" -> ForStmt("i", Call(Name("range"), <<Const(IntV(2))>>))]

IsHeader(st) == st.op \in {"for", "while"}

\* The primitives the block templates of the palette call.
PalettePrimitives ==
    {"print", "input", "range", "len", "abs", "max", "min", "round", "int", "str", "sum"}

\* The dict passed to exec() as __builtins__: the Capability Set.
CapabilityNames ==
    {"print", "input", "range", "len", "int", "float", "str", "abs", "min", "max",
     "sum", "True", "False", "None"}

\* The capability names the handler reads from the builtins module of the host
\* when it builds the dict.
HostNames == CapabilityNames \ {"input", "True", "False", "None"}

\* The dict as built by one call of the handler: a is the address of the lambda
\* it binds to input, hb the names of the host's builtins module that have
\* been rebound.
Builtins(a, hb) ==
    [n \in CapabilityNames |->
        CASE n = "True" -> BoolV(TRUE)
          [] n = "False" -> BoolV(FALSE)
          [] n = "None" -> NoneV
          [] n = "input" -> FunctionV(a)
          [] OTHER -> IF n \in DOMAIN hb THEN hb[n] ELSE BuiltinV(n)]

\* The globals dict passed to exec(): its one key is __builtins__.
Globals(bi) == [n \in {"__builtins__"} |-> DictV(bi)]

Ok(val) == [val |-> val, exc |-> NoExc, out |-> <<>>]
Fail(e) == [val |-> NoneV, exc |-> e, out |-> <<>>]

\* Name resolution of exec(code, globals, locals): locals, globals, builtins.
Lookup(id, env, bi) ==
    IF id \in DOMAIN env THEN Ok(env[id])
    ELSE IF id \in DOMAIN Globals(bi) THEN Ok(Globals(bi)[id])
    ELSE IF id \in DOMAIN bi THEN Ok(bi[id])
    ELSE Fail(Raise("NameError", <<"name '", id, "' is not defined">>))

\* ' '.join(str(v) for v in vals)
RECURSIVE JoinStr(_)
JoinStr(vals) ==
    IF vals = <<>> THEN <<>>
    ELSE IF Len(vals) = 1 THEN Str(vals[1])
    ELSE Str(vals[1]) \o <<" ">> \o JoinStr(Tail(vals))

\* Mutant of InputLambda: the host's input(), which returns the line typed.
InputReadsLine(vals) == Ok(StrV(<<"typed">>))

\* lambda x='': x
InputLambda(vals) ==
    IF Len(vals) > 1
    THEN Fail(Raise("TypeError",
                    <<"execute_code.<locals>.<lambda>() takes from 0 to 1 positional arguments but",
                      " ">> \o IntText(Len(vals)) \o <<" ", "were given">>))
    ELSE IF vals = <<>> THEN Ok(StrV(<<>>)) ELSE Ok(vals[1])

\* The host functions of the Capability Set that the Program texts call.
Primitive(f, vals) ==
    CASE f = "print" -> [val |-> NoneV, exc |-> NoExc, out |-> JoinStr(vals) \o <<"\n">>]
      [] f = "range" ->
             IF Len(vals) = 1 /\ vals[1].t = "int" THEN Ok(RangeV(vals[1].v))
             ELSE Fail(Raise("TypeError", <<"range expected an integer argument">>))
      [] f = "str" -> IF vals = <<>> THEN Ok(StrV(<<>>)) ELSE Ok(StrV(Str(vals[1])))

\* Calling an object.
Apply(f, vals) ==
    CASE f.t = "builtin" -> Primitive(f.v, vals)
      [] f.t = "function" -> InputLambda(vals)
      [] f.t = "type" -> Ok([t |-> "instance", v |-> f.v])
      [] OTHER -> Fail(Raise("TypeError", <<"'", f.t, "' object is not callable">>))

\* A name, a literal or a class reached by introspection; bi is the dict
\* exec() was given as __builtins__.
EvalAtom(expr, env, bi) ==
    CASE expr.e = "const" -> Ok(expr.v)
      [] expr.e = "name" -> Lookup(expr.id, env, bi)
      [] expr.e = "subclass" -> Ok(TypeV(expr.cls))

\* Arguments are evaluated left to right; the first fault ends the evaluation.
\* The arguments of the modelled texts are names and literals.
RECURSIVE EvalArgs(_, _, _)
EvalArgs(args, env, bi) ==
    IF args = <<>> THEN [vals |-> <<>>, exc |-> NoExc]
    ELSE LET a == EvalAtom(Head(args), env, bi)
         IN  IF a.exc # NoExc THEN [vals |-> <<>>, exc |-> a.exc]
             ELSE LET r == EvalArgs(Tail(args), env, bi)
                  IN  [vals |-> <<a.val>> \o r.vals, exc |-> r.exc]

\* The call of f on the arguments as, each as evaluated.
CallWith(f, as) ==
    IF f.exc # NoExc THEN f
    ELSE IF as.exc # NoExc THEN Fail(as.exc)
    ELSE Apply(f.val, as.vals)

\* An expression: [val, exc, out].  The callee is evaluated before the arguments.
Eval(expr, env, bi) ==
    IF expr.e # "call" THEN EvalAtom(expr, env, bi)
    ELSE CallWith(EvalAtom(expr.fn, env, bi), EvalArgs(expr.args, env, bi))

Bind(env, id, val) == [n \in DOMAIN env \cup {id} |-> IF n = id THEN val ELSE env[n]]

\* x /= d, with x and d as evaluated.
Divide(st, env, x, d) ==
    IF x.exc # NoExc THEN [env |-> env, out |-> <<>>, exc |-> x.exc]
    ELSE IF d.exc # NoExc THEN [env |-> env, out |-> d.out, exc |-> d.exc]
    ELSE IF ~(x.val.t \in {"int", "float"} /\ d.val.t \in {"int", "float"})
    THEN [env |-> env, out |-> d.out,
          exc |-> Raise("TypeError", <<"unsupported operand type(s) for /=">>)]
    ELSE IF d.val.v = 0
    THEN [env |-> env, out |-> d.out,
          exc |-> Raise("ZeroDivisionError", <<"division by zero">>)]
    ELSE [env |-> Bind(env, st.name, FloatV(x.val.v \div d.val.v)),
          out |-> d.out, exc |-> NoExc]

\* What statement st does with its expression evaluated to r.
Effect(st, env, r, bi) ==
    CASE st.op = "assign" ->
             [env |-> IF r.exc = NoExc THEN Bind(env, st.name, r.val) ELSE env,
              out |-> r.out, exc |-> r.exc]
      [] st.op = "augdiv" -> Divide(st, env, Lookup(st.name, env, bi), r)
      [] st.op = "expr" -> [env |-> env, out |-> r.out, exc |-> r.exc]
      [] st.op = "hoststore" -> [env |-> env, out |-> r.out, exc |-> r.exc]
      [] st.op = "assert" ->
             [env |-> env, out |-> r.out,
              exc |-> IF r.exc # NoExc THEN r.exc
                      ELSE IF Truthy(r.val) THEN NoExc
                      ELSE Raise("AssertionError", <<>>)]
      [] st.op = "raise" ->
             [env |-> env, out |-> r.out,
              exc |-> IF r.exc # NoExc THEN r.exc
                      ELSE IF r.val.t \in {"type", "instance"} THEN Raise(r.val.v, <<>>)
                      ELSE Raise("TypeError", <<"exceptions must derive from BaseException">>)]

\* One simple statement: the bindings after it, what it wrote, the fault it raised.
RunStmt(st, env, bi) == Effect(st, env, Eval(st.expr, env, bi), bi)

---------------------------------------------------------------------------
\* exec(): compilation of the text, then evaluation statement by statement.

Last(s) == s[Len(s)]

\* A header whose block has no statement yet.
Pending(prog) == prog # <<>> /\ IsHeader(Last(prog)) /\ Last(prog).body = <<>>

\* The parser over the physical lines ls from line i on: blank and comment lines
\* are skipped, a line at indentation 0 is a top-level statement, an indented
\* line belongs to the block of the header before it.  open: the last top-level
\* statement is a header that still takes lines.
RECURSIVE ParseLines(_, _, _, _)
ParseLines(ls, i, prog, open) ==
    IF i > Len(ls)
    THEN IF Pending(prog)
         THEN [prog |-> <<>>,
               exc |-> RaiseAt("IndentationError", <<"expected an indented block">>, Len(ls))]
         ELSE [prog |-> prog, exc |-> NoExc]
    ELSE LET text == Strip(ls[i])
             indent == Len(ls[i]) - Len(LStrip(ls[i]))
         IN  IF text = <<>> \/ StartsWithHash(text) THEN ParseLines(ls, i + 1, prog, open)
             ELSE IF Len(text) # 1 \/ text[1] \notin DOMAIN Grammar
             THEN [prog |-> <<>>, exc |-> RaiseAt("SyntaxError", <<"invalid syntax">>, i)]
             ELSE IF Grammar[text[1]].op = "malformed"
             THEN [prog |-> <<>>, exc |-> RaiseAt("SyntaxError", Grammar[text[1]].msg, i)]
             ELSE IF indent = 0
             THEN IF Pending(prog)
                  THEN [prog |-> <<>>,
                        exc |-> RaiseAt("IndentationError",
                                        <<"expected an indented block">>, i)]
                  ELSE ParseLines(ls, i + 1, Append(prog, Grammar[text[1]]),
                                  IsHeader(Grammar[text[1]]))
             ELSE IF ~open
             THEN [prog |-> <<>>,
                   exc |-> RaiseAt("IndentationError", <<"unexpected indent">>, i)]
             ELSE IF IsHeader(Grammar[text[1]])
             THEN [prog |-> <<>>,
                   exc |-> RaiseAt("IndentationError",
                                   <<"expected an indented block">>, i)]
             ELSE ParseLines(ls, i + 1,
                             [prog EXCEPT ![Len(prog)].body = Append(@, Grammar[text[1]])],
                             TRUE)

\* compile(code): the statements of the Program, or the SyntaxError.
Compile(text) == ParseLines(Split(text), 1, <<>>, FALSE)

\* The evaluator's position: statement ip of the Program, statement bip of its
\* block (0 outside a block), and the next value and the stop of the range
\* being iterated; builtins is the dict the frame resolves capability names in.
StartFrame(prog, bi) ==
    [prog |-> prog, ip |-> 1, bip |-> 0, next |-> 0, stop |-> 0, builtins |-> bi]
NoFrame == StartFrame(<<>>, <<>>)

Finished(fr) == fr.bip = 0 /\ fr.ip > Len(fr.prog)

\* Mutant of ForIter: the loop variable is local to the loop and is gone when
\* the loop ends.
ForIterScoped(fr, env, out) ==
    IF fr.next < fr.stop
    THEN [frame |-> [fr EXCEPT !.bip = 1, !.next = @ + 1],
          env |-> Bind(env, fr.prog[fr.ip].name, IntV(fr.next)),
          out |-> out, exc |-> NoExc]
    ELSE [frame |-> [fr EXCEPT !.bip = 0, !.ip = @ + 1],
          env |-> [n \in DOMAIN env \ {fr.prog[fr.ip].name} |-> env[n]],
          out |-> out, exc |-> NoExc]

\* The loop header takes the next value of its iterator or leaves the loop.
ForIter(fr, env, out) ==
    IF fr.next < fr.stop
    THEN [frame |-> [fr EXCEPT !.bip = 1, !.next = @ + 1],
          env |-> Bind(env, fr.prog[fr.ip].name, IntV(fr.next)),
          out |-> out, exc |-> NoExc]
    ELSE [frame |-> [fr EXCEPT !.bip = 0, !.ip = @ + 1], env |-> env,
          out |-> out, exc |-> NoExc]

\* for ... in r: the iterable r as evaluated.
EnterLoop(fr, env, r) ==
    IF r.exc # NoExc THEN [frame |-> fr, env |-> env, out |-> r.out, exc |-> r.exc]
    ELSE IF r.val.t # "range"
    THEN [frame |-> fr, env |-> env, out |-> r.out,
          exc |-> Raise("TypeError", <<"'", r.val.t, "' object is not iterable">>)]
    ELSE ForIter([fr EXCEPT !.next = 0, !.stop = r.val.v], env, r.out)

\* while c: the condition c as evaluated, before every pass through the block.
\* Nothing but the condition ends the loop.
WhileTest(fr, env, r) ==
    IF r.exc # NoExc THEN [frame |-> fr, env |-> env, out |-> r.out, exc |-> r.exc]
    ELSE [frame |-> IF Truthy(r.val) THEN [fr EXCEPT !.bip = 1]
                    ELSE [fr EXCEPT !.bip = 0, !.ip = @ + 1],
          env |-> env, out |-> r.out, exc |-> NoExc]

\* The end of a loop's block: back to the header.
LoopBack(fr, env, out) ==
    IF fr.prog[fr.ip].op = "while"
    THEN [frame |-> [fr EXCEPT !.bip = 0], env |-> env, out |-> out, exc |-> NoExc]
    ELSE ForIter(fr, env, out)

\* The position after a simple statement whose effect was r.
AfterStmt(fr, r) ==
    IF fr.bip = 0
    THEN [frame |-> [fr EXCEPT !.ip = @ + 1], env |-> r.env, out |-> r.out, exc |-> r.exc]
    ELSE IF r.exc # NoExc \/ fr.bip < Len(fr.prog[fr.ip].body)
    THEN [frame |-> [fr EXCEPT !.bip = @ + 1], env |-> r.env, out |-> r.out, exc |-> r.exc]
    ELSE LoopBack(fr, r.env, r.out)

\* The statement the evaluator is at.
Current(fr) == IF fr.bip = 0 THEN fr.prog[fr.ip] ELSE fr.prog[fr.ip].body[fr.bip]

\* One step of the evaluator: [frame, env, out, exc].
Step(fr, env) ==
    IF fr.bip = 0 /\ fr.prog[fr.ip].op = "for"
    THEN EnterLoop(fr, env, Eval(fr.prog[fr.ip].expr, env, fr.builtins))
    ELSE IF fr.bip = 0 /\ fr.prog[fr.ip].op = "while"
    THEN WhileTest(fr, env, Eval(fr.prog[fr.ip].expr, env, fr.builtins))
    ELSE AfterStmt(fr, RunStmt(Current(fr), env, fr.builtins))

\* The builtins module of the host after the statement at fr ended with e: a
\* store that raised nothing stays in the process.  The modelled texts store
\* literals.
Stored(hb, fr, e) ==
    IF Current(fr).op = "hoststore" /\ e = NoExc
    THEN Bind(hb, Current(fr).name, Current(fr).expr.v)
    ELSE hb

---------------------------------------------------------------------------
\* The handler execute_code.

\* The physical lines Program texts are made of.
LineCatalog ==
    {<<>>, <<" ", "# c">>, <<"x = 5">>, <<"print(x)">>, <<"print('a')">>, <<"x /= 0">>,
     <<"print(undefined_name)">>, <<"if x">>, <<"assert False">>, <<RaiseBase>>,
     <<"x = __builtins__">>, <<"for i in range(2):">>, <<" ", "print(i)">>, <<"_t = 1">>,
     <<"for _ in range(2):">>, <<" ", "i = 5">>}

ConcLineCatalog == {<<"print('a')">>, <<"print(undefined_name)">>, <<"x = 5">>}

\* Lines that rebind a capability name, call and render the input primitive,
\* print blank and padded lines, run the repeat-times block, call the round
\* block and reach the builtins module of the host.
EnvLineCatalog ==
    {<<"x = 5">>, <<"print(x)">>, <<"print = 5">>, <<"x = input('p')">>, <<"x = input()">>,
     <<"x = input">>, <<"for _ in range(2):">>, <<" ", "print(' a ')">>, <<"print()">>,
     <<RebindHostPrint>>, <<"x = round(1)">>}

\* Lines of the while block: a condition that stays true, one that is false.
LoopLineCatalog ==
    {<<"while True:">>, <<"while False:">>, <<" ", "x = 5">>, <<"x = 5">>, <<"print(x)">>,
     <<"print(undefined_name)">>}

\* The texts of at most n lines over the lines of cat.
Programs(n, cat) == {Join(ls) : ls \in UNION {[1..k -> cat] : k \in 0..n}}

NoText == <<>>
Empty == <<>>          \* the empty dict

\* Mutant of InitResult: the error field starts as the empty string, not None.
InitResultEmptyError ==
    [success |-> TRUE, output |-> <<>>, error |-> StrV(<<>>), variables |-> Empty,
     steps |-> <<>>]

InitResult ==
    [success |-> TRUE, output |-> <<>>, error |-> NoneV, variables |-> Empty,
     steps |-> <<>>]

\* The identifiers that start with an underscore.
UnderscoreNames == {"_", "_t", "__builtins__"}

\* name.startswith('_')
StartsWithUnderscore(n) == n \in UnderscoreNames

\* The step listing: the static scan of the physical lines from index i on.
RECURSIVE ScanLines(_, _)
ScanLines(ls, i) ==
    IF i > Len(ls) THEN <<>>
    ELSE (IF Strip(ls[i]) # <<>> /\ ~StartsWithHash(Strip(ls[i]))
          THEN <<[line |-> i, code |-> ls[i]]>>
          ELSE <<>>) \o ScanLines(ls, i + 1)

\* Mutant of StepsOf: every physical line is listed.
StepsOfEveryLine(ls) == [i \in 1..Len(ls) |-> [line |-> i, code |-> ls[i]]]

StepsOf(ls) == ScanLines(ls, 1)

\* The output lines read from the captured text.
OutputLines(text) == IF text # <<>> THEN Split(Strip(text)) ELSE <<>>

\* Mutant of Snapshot: the values are rendered with str(), not repr().
SnapshotStr(env) ==
    [n \in {m \in DOMAIN env : ~StartsWithUnderscore(m)} |-> Str(env[n])]

\* Mutant of Snapshot: every binding is shown.
SnapshotUnfiltered(env) == [n \in DOMAIN env |-> Repr(env[n])]

\* The bindings shown: the names without a leading underscore, rendered.
Snapshot(env) ==
    [n \in {m \in DOMAIN env : ~StartsWithUnderscore(m)} |-> Repr(env[n])]

\* except Exception as e
Caught(e) == IsException(e)

\* Mutant of OnExcept: the except block records the message and leaves the flag.
OnExceptKeepsFlag(res, e) == [res EXCEPT !.error = StrV(StrExc(e))]

\* Mutant of OnExcept: the except block clears the flag and records no message.
OnExceptNoMessage(res, e) == [res EXCEPT !.success = FALSE]

\* The except block.
OnExcept(res, e) == [res EXCEPT !.success = FALSE, !.error = StrV(StrExc(e))]

\* exec() from the position r on to its end: the bindings, the text written
\* and the fault.
RECURSIVE RunOn(_, _)
RunOn(r, out) ==
    IF r.exc # NoExc \/ Finished(r.frame)
    THEN [env |-> r.env, out |-> out \o r.out, exc |-> r.exc]
    ELSE RunOn(Step(r.frame, r.env), out \o r.out)

\* The try block after exec() ended as fin.
Reported(ls, fin) ==
    IF fin.exc # NoExc THEN OnExcept(InitResult, fin.exc)
    ELSE [InitResult EXCEPT !.steps = StepsOf(ls), !.output = OutputLines(fin.out),
                            !.variables = Snapshot(fin.env)]

\* The result of the text c, compiled to comp, run on a host nothing has
\* touched.
FirstRunOf(c, comp, a) ==
    IF comp.exc # NoExc THEN OnExcept(InitResult, comp.exc)
    ELSE Reported(Split(c),
                  RunOn([frame |-> StartFrame(comp.prog, Builtins(a, Empty)), env |-> Empty,
                         out |-> NoText, exc |-> NoExc], NoText))

\* execute_code on the text c as the first request of the process; the lambda
\* of its exec() call lives at a.
FirstRun(c, a) == FirstRunOf(c, Compile(c), a)

\* The StringIO objects still referenced.
Reachable(so, olds) == ({so} \cup {olds[t] : t \in Threads}) \ {0}
Collect(h, so, olds) == [b \in DOMAIN h \cap Reachable(so, olds) |-> h[b]]

\* file.write(text): the original sink (0) is the host's terminal.
Write(h, sink, text) == IF sink = 0 THEN h ELSE [h EXCEPT ![sink] = @ \o text]

\* What the original sink shows after file.write(text).
Shown(term, sink, text) == IF sink = 0 THEN term \o text ELSE term

NewBuffer == CHOOSE b \in 1..(Cardinality(Threads) + 1) : b \notin DOMAIN heap

\* code = request.json.get('code', ''); old_stdout = sys.stdout
Request(t) ==
    /\ t \in workers
    /\ pc[t] = "idle"
    /\ served < MaxRuns
    /\ \E c \in Programs(catalog.n, catalog.lines) : code' = [code EXCEPT ![t] = c]
    /\ old_stdout' = [old_stdout EXCEPT ![t] = sys_stdout]
    /\ served' = served + 1
    /\ pc' = [pc EXCEPT ![t] = "redirect"]
    /\ UNCHANGED <<terminal, logged, host_builtins, printed, workers, catalog, sys_stdout, heap, result, local_vars, lines, frame, exc>>

\* sys.stdout = StringIO(); result = {...}
Redirect(t) ==
    /\ pc[t] = "redirect"
    /\ sys_stdout' = NewBuffer
    /\ heap' = Collect(heap @@ (NewBuffer :> NoText), NewBuffer, old_stdout)
    /\ result' = [result EXCEPT ![t] = InitResult]
    /\ pc' = [pc EXCEPT ![t] = "compile"]
    /\ UNCHANGED <<terminal, logged, host_builtins, printed, workers, catalog, served, code, old_stdout, local_vars, lines, frame, exc>>

\* local_vars = {}
NewLocals == Empty

\* Mutant of AfterExec: a fault is noted and the evaluator goes on with the
\* statement after the faulting one.
AfterExecResumes(e, finished) == IF finished THEN "report" ELSE "exec"

\* Where the handler goes when exec() has raised e (NoExc: nothing).
AfterExec(e, finished) ==
    IF e # NoExc THEN (IF Caught(e) THEN "except" ELSE "finally")
    ELSE IF finished THEN "report" ELSE "exec"

\* The frame exec() starts for the compiled text c, given the dict bi.
Compiled(t, c, bi) ==
    /\ frame' = [frame EXCEPT ![t] = IF c.exc = NoExc THEN StartFrame(c.prog, bi) ELSE NoFrame]
    /\ exc' = [exc EXCEPT ![t] = c.exc]
    /\ pc' = [pc EXCEPT ![t] = AfterExec(c.exc, c.prog = <<>>)]

\* local_vars = {}; lines = code.split('\n'); exec() compiles the text
EnterExec(t) ==
    /\ pc[t] = "compile"
    /\ local_vars' = [local_vars EXCEPT ![t] = NewLocals]
    /\ lines' = [lines EXCEPT ![t] = Split(code[t])]
    /\ \E a \in Addresses : Compiled(t, Compile(code[t]), Builtins(a, host_builtins))
    /\ UNCHANGED <<terminal, logged, host_builtins, printed, workers, catalog, served, sys_stdout, heap, code, old_stdout, result>>

Stepped(t, r) ==
    /\ host_builtins' = Stored(host_builtins, frame[t], r.exc)
    /\ heap' = Write(heap, sys_stdout, r.out)
    /\ terminal' = Shown(terminal, sys_stdout, r.out)
    /\ printed' = [printed EXCEPT ![t] = @ \o r.out]
    /\ local_vars' = [local_vars EXCEPT ![t] = r.env]
    /\ frame' = [frame EXCEPT ![t] = r.frame]
    /\ exc' = [exc EXCEPT ![t] = r.exc]
    /\ pc' = [pc EXCEPT ![t] = AfterExec(r.exc, Finished(r.frame))]

\* exec() evaluates one statement; print writes to whatever sys.stdout is now
ExecStep(t) ==
    /\ pc[t] = "exec"
    /\ Stepped(t, Step(frame[t], local_vars[t]))
    /\ UNCHANGED <<logged, workers, catalog, served, sys_stdout, code, old_stdout, result, lines>>

\* The rest of the try block: steps, sys.stdout.getvalue(), variables
Report(t) ==
    /\ pc[t] = "report"
    /\ IF sys_stdout = 0
       THEN /\ result' = [result EXCEPT ![t].steps = StepsOf(lines[t])]
            /\ exc' = [exc EXCEPT ![t] =
                          Raise("AttributeError",
                                <<"'_io.TextIOWrapper' object has no attribute 'getvalue'">>)]
            /\ pc' = [pc EXCEPT ![t] = "except"]
       ELSE /\ result' = [result EXCEPT ![t].steps = StepsOf(lines[t]),
                                        ![t].output = OutputLines(heap[sys_stdout]),
                                        ![t].variables = Snapshot(local_vars[t])]
            /\ exc' = exc
            /\ pc' = [pc EXCEPT ![t] = "finally"]
    /\ UNCHANGED <<terminal, logged, host_builtins, printed, workers, catalog, served, sys_stdout, heap, code, old_stdout, local_vars,
                   lines, frame>>

\* except Exception as e: result['success'] = False; result['error'] = str(e)
Except(t) ==
    /\ pc[t] = "except"
    /\ result' = [result EXCEPT ![t] = OnExcept(result[t], exc[t])]
    /\ pc' = [pc EXCEPT ![t] = "finally"]
    /\ UNCHANGED <<terminal, logged, host_builtins, printed, workers, catalog, served, sys_stdout, heap, code, old_stdout,
                   local_vars, lines, frame, exc>>

\* Mutant of Restore: the sink is put back at the end of the try block, so
\* only when nothing was raised.
RestoreOnSuccess(sink, old, e) == IF e = NoExc THEN old ELSE sink

\* The sink after the finally block, whatever the try block raised.
Restore(sink, old, e) == old

\* finally: sys.stdout = old_stdout; then return jsonify(result), or the
\* exception that no handler caught leaves the function
Finally(t) ==
    /\ pc[t] = "finally"
    /\ sys_stdout' = Restore(sys_stdout, old_stdout[t], exc[t])
    /\ heap' = Collect(heap, Restore(sys_stdout, old_stdout[t], exc[t]), old_stdout)
    /\ pc' = [pc EXCEPT ![t] = IF exc[t] # NoExc /\ ~Caught(exc[t]) THEN "raised" ELSE "done"]
    /\ UNCHANGED <<terminal, logged, host_builtins, printed, workers, catalog, served, code, old_stdout, result, local_vars, lines,
                   frame, exc>>

\* Control leaves execute_code and the handler's locals die.
Leave(t) ==
    /\ pc[t] \in {"done", "raised"}
    /\ pc' = [pc EXCEPT ![t] = "idle"]
    /\ code' = [code EXCEPT ![t] = NoText]
    /\ old_stdout' = [old_stdout EXCEPT ![t] = 0]
    /\ heap' = Collect(heap, sys_stdout, [old_stdout EXCEPT ![t] = 0])
    /\ result' = [result EXCEPT ![t] = InitResult]
    /\ local_vars' = [local_vars EXCEPT ![t] = Empty]
    /\ lines' = [lines EXCEPT ![t] = <<>>]
    /\ frame' = [frame EXCEPT ![t] = NoFrame]
    /\ exc' = [exc EXCEPT ![t] = NoExc]
    /\ printed' = [printed EXCEPT ![t] = NoText]
    /\ UNCHANGED <<terminal, logged, host_builtins, workers, catalog, served, sys_stdout>>

\* What load_users writes when the users file cannot be read.
HostLog == "File load error: [Errno 13] Permission denied: 'users.json'"

\* Another request handler, on its own thread, reaches a print call: the text
\* and the line break go to whatever sys.stdout is now.
HostPrint ==
    /\ logged < MaxLogs
    /\ "print" \notin DOMAIN host_builtins
    /\ heap' = Write(heap, sys_stdout, <<HostLog, "\n">>)
    /\ terminal' = Shown(terminal, sys_stdout, <<HostLog, "\n">>)
    /\ logged' = logged + 1
    /\ UNCHANGED <<host_builtins, printed, workers, catalog, served, sys_stdout, pc, code,
                   old_stdout, result, local_vars, lines, frame, exc>>

Idle ==
    /\ served = 0
    /\ sys_stdout = 0
    /\ heap = Empty
    /\ host_builtins = Empty
    /\ pc = [t \in Threads |-> "idle"]
    /\ code = [t \in Threads |-> NoText]
    /\ old_stdout = [t \in Threads |-> 0]
    /\ result = [t \in Threads |-> InitResult]
    /\ local_vars = [t \in Threads |-> Empty]
    /\ lines = [t \in Threads |-> <<>>]
    /\ frame = [t \in Threads |-> NoFrame]
    /\ exc = [t \in Threads |-> NoExc]
    /\ printed = [t \in Threads |-> NoText]
    /\ terminal = NoText
    /\ logged = 0

\* One worker: requests are served one after the other.
Init ==
    /\ workers = {1}
    /\ catalog = [n |-> MaxLines, lines |-> LineCatalog]
    /\ Idle

\* Two workers: two requests may be in the handler at once.
InitConc ==
    /\ workers = Threads
    /\ catalog = [n |-> MaxConcLines, lines |-> ConcLineCatalog]
    /\ Idle

\* One worker, serving the texts over EnvLineCatalog.
InitEnv ==
    /\ workers = {1}
    /\ catalog = [n |-> MaxLines, lines |-> EnvLineCatalog]
    /\ Idle

Next ==
    \E t \in Threads :
        \/ Request(t)
        \/ Redirect(t)
        \/ EnterExec(t)
        \/ ExecStep(t)
        \/ Report(t)
        \/ Except(t)
        \/ Finally(t)
        \/ Leave(t)

Spec == Init /\ [][Next]_vars

SpecConc == InitConc /\ [][Next]_vars

SpecEnv == InitEnv /\ [][Next]_vars

\* One worker, serving the texts over LoopLineCatalog.
InitLoop ==
    /\ workers = {1}
    /\ catalog = [n |-> MaxLines, lines |-> LoopLineCatalog]
    /\ Idle

\* A thread that is inside the handler keeps running: every step of the
\* handler that stays enabled is eventually taken.  No request is ever owed.
Scheduled ==
    \A t \in Threads :
        /\ WF_vars(Redirect(t)) /\ WF_vars(EnterExec(t)) /\ WF_vars(ExecStep(t))
        /\ WF_vars(Report(t)) /\ WF_vars(Except(t)) /\ WF_vars(Finally(t))

\* The lines of the Programs served while other handlers log.
HostLineCatalog == {<<"x = 5">>, <<"print(x)">>, <<"print(undefined_name)">>}

\* One worker in execute_code; the other handlers of the process run beside it.
InitHost ==
    /\ workers = {1}
    /\ catalog = [n |-> MaxLines, lines |-> HostLineCatalog]
    /\ Idle

NextHost == Next \/ HostPrint

SpecHost == InitHost /\ [][NextHost]_vars

SpecLoop == InitLoop /\ [][Next]_vars /\ Scheduled

---------------------------------------------------------------------------
\* Properties of the handler.

Returned(t) == pc[t] = "done"        \* the handler is at return jsonify(result)
Escaped(t) == pc[t] = "raised"       \* an exception is leaving the handler

\* The identifiers an expression loads.
NamesOfAtom(expr) == IF expr.e = "name" THEN {expr.id} ELSE {}
NamesOf(expr) ==
    IF expr.e = "call"
    THEN NamesOfAtom(expr.fn) \cup UNION {NamesOfAtom(expr.args[k]) : k \in DOMAIN expr.args}
    ELSE NamesOfAtom(expr)

\* The identifiers a statement loads before it binds anything.
Loads(st) == NamesOf(st.expr) \cup (IF st.op = "augdiv" THEN {st.name} ELSE {})

\* The classes of the three fault kinds of the error taxonomy.
UnresolvedClasses == {"NameError"}
MisuseClasses == {"ZeroDivisionError", "TypeError"}
MalformedClasses == {"SyntaxError", "IndentationError"}

\* C1: for every Program text the handler returns an Execution Result; no
\* fault leaves the handler.
C1_NoFaultEscapes == \A t \in Threads : ~Escaped(t)

\* C2: whether the run succeeded or faulted, steps is the static scan of the
\* Program text.
C2_StepsRegardlessOfSuccess ==
    \A t \in Threads : Returned(t) => result[t].steps = StepsOf(Split(code[t]))

\* C3: when a run faults, the lines its Program printed before the fault are
\* the output of the returned result.
C3_OutputBeforeFaultShown ==
    \A t \in Threads :
        (Returned(t) /\ ~result[t].success) => result[t].output = OutputLines(printed[t])

\* C4: when a run faults, variables holds the non-underscore bindings the
\* Program made up to the fault.
C4_BindingsUpToFault ==
    \A t \in Threads :
        (Returned(t) /\ ~result[t].success) => result[t].variables = Snapshot(local_vars[t])

\* C5: with two runs in the handler at once, the output of each successful
\* run is exactly the lines its own Program printed.
C5_OwnOutputOnly ==
    \A t \in Threads :
        (Returned(t) /\ result[t].success) => result[t].output = OutputLines(printed[t])

\* C6: a statement that loads an identifier which is neither in the Capability
\* Set nor bound earlier in the run ends the run in the except block.
C6_UnresolvedNameFails ==
    [][\A t \in Threads :
          (/\ pc[t] = "exec"
           /\ Loads(Current(frame[t])) \ (CapabilityNames \cup DOMAIN local_vars[t]) # {}
           /\ (pc'[t] # "exec" \/ frame'[t] # frame[t]))
          => pc'[t] = "except"]_vars

\* C7 as stated: a run whose Program has no unresolved identifier and no
\* primitive misuse returns success true and error null.
C7_NoNameNoMisuseSucceeds ==
    \A t \in Threads :
        (Returned(t) /\ exc[t].cls \notin UnresolvedClasses \cup MisuseClasses)
            => (result[t].success /\ result[t].error = NoneV)

\* C7 as amended: a run in which nothing raised (no unresolved identifier, no
\* primitive misuse, no malformed construct, no failing assert, no raise)
\* returns success true and error null.
C7_NoFaultSucceeds ==
    \A t \in Threads :
        (Returned(t) /\ exc[t] = NoExc) => (result[t].success /\ result[t].error = NoneV)

C7_Witness ==
    \E t \in Threads :
        /\ Returned(t) /\ exc[t] = NoExc /\ result[t].success
        /\ result[t].output # <<>> /\ DOMAIN result[t].variables # {}

\* C8: an unresolved identifier, a primitive misuse and a malformed construct
\* are each reported as success false with one error string, the message of
\* the fault.
C8_FaultKindsReportedAlike ==
    \A t \in Threads :
        (Returned(t) /\ exc[t].cls \in UnresolvedClasses \cup MisuseClasses \cup MalformedClasses)
            => (result[t].success = FALSE /\ result[t].error = StrV(StrExc(exc[t])))

C8_Witness ==
    \E t \in Threads :
        /\ Returned(t) /\ exc[t].cls \in MalformedClasses
        /\ result[t].success = FALSE /\ result[t].error.t = "str"

\* C9: whenever a run fails, error is a non-empty string.
C9_ErrorNonEmptyOnFailure ==
    \A t \in Threads :
        (Returned(t) /\ ~result[t].success)
            => (result[t].error.t = "str" /\ result[t].error.v # <<>>)

\* C10: in every returned result error is null exactly when success is true,
\* and a string when success is false.
C10_ErrorNullIffSuccess ==
    \A t \in Threads :
        Returned(t) => /\ result[t].success <=> result[t].error = NoneV
                       /\ ~result[t].success => result[t].error.t = "str"

C10_Witness ==
    \E t \in Threads :
        /\ Returned(t) /\ exc[t].cls \in MisuseClasses
        /\ ~result[t].success /\ result[t].error # NoneV

\* C11: the step that ends a run, whether it returns a result or lets an
\* exception leave the handler, makes sys.stdout the object the run found
\* installed when it started.
C11_SinkRestored ==
    [][\A t \in workers :
          (pc[t] = "finally" /\ pc'[t] \in {"done", "raised"})
              => sys_stdout' = old_stdout[t]]_vars

C11_Witness ==
    \E t \in workers :
        /\ Returned(t) /\ ~result[t].success /\ exc[t] # NoExc
        /\ sys_stdout = old_stdout[t]

\* C12: whatever runs came before, faulted or not, the result a run returns
\* for its Program is a result the same Program gives as the first run.
C12_LaterRunAsFirstRun ==
    \A t \in workers :
        Returned(t) => \E a \in Addresses : result[t] = FirstRun(code[t], a)

\* The names a statement binds, and the names the statements of a Program bind.
TargetsOf(st) == IF st.op \in {"assign", "augdiv", "for"} THEN {st.name} ELSE {}
Targets(prog) ==
    UNION {TargetsOf(prog[k]) \cup
               (IF IsHeader(prog[k])
                THEN UNION {TargetsOf(prog[k].body[j]) : j \in DOMAIN prog[k].body}
                ELSE {}) : k \in DOMAIN prog}

\* exec() has started on its Program and evaluated nothing yet.
AtStart(t) == pc[t] = "exec" /\ frame[t] = StartFrame(frame[t].prog, frame[t].builtins)

\* C13: every run starts exec() with an empty Binding Environment, the
\* environment of a run never holds a name that the run's own Program does
\* not bind, and a capability name the Program has not bound resolves to the
\* primitive of the Capability Set, whatever earlier runs have rebound.
C13_BindingsOwnedByRun ==
    \A t \in workers :
        /\ AtStart(t) => local_vars[t] = Empty
        /\ DOMAIN local_vars[t] \subseteq Targets(frame[t].prog)
        /\ pc[t] = "exec" =>
               \A n \in HostNames \ DOMAIN local_vars[t] :
                   Lookup(n, local_vars[t], frame[t].builtins).val = BuiltinV(n)

\* Two results show the same output and the same variables.
SameShown(res, ref) == res.output = ref.output /\ res.variables = ref.variables

\* One of the addresses the lambda of a run may get.
RefAddress == CHOOSE a \in Addresses : TRUE

\* C14: on a host no run has changed, the output and the variables of a run
\* are those of every other run of the same text: they are the ones of the
\* run of that text whose lambda lives at RefAddress.
C14_SameTextSameResult ==
    \A t \in workers :
        (Returned(t) /\ host_builtins = Empty)
            => SameShown(result[t], FirstRun(code[t], RefAddress))

\* C15: no key of variables in a returned result starts with an underscore,
\* whatever the Program bound.
C15_NoUnderscoreKey ==
    \A t \in workers :
        Returned(t) => \A n \in DOMAIN result[t].variables : n \notin UnderscoreNames

\* A run of the repeat-times block has returned: its counter _ is bound.
C15_Witness ==
    \E t \in workers :
        /\ Returned(t) /\ result[t].success
        /\ "_" \in DOMAIN local_vars[t] /\ "_" \notin DOMAIN result[t].variables

\* Line i of ls is neither blank nor a comment.
Listed(ls, i) == Strip(ls[i]) # <<>> /\ ~StartsWithHash(Strip(ls[i]))

\* The listing S holds, in physical order and once each, exactly the lines of
\* ls that are neither blank nor comments, with their 1-based numbers and
\* their raw text.
IsStaticScan(S, ls) ==
    /\ \A k \in DOMAIN S :
           /\ S[k].line \in 1..Len(ls)
           /\ Listed(ls, S[k].line)
           /\ S[k].code = ls[S[k].line]
    /\ \A j, k \in DOMAIN S : j < k => S[j].line < S[k].line
    /\ \A i \in 1..Len(ls) : Listed(ls, i) => \E k \in DOMAIN S : S[k].line = i

\* C16: the steps of a successful run are the static scan of the physical
\* lines of its text, however often a loop body ran.
C16_StepsAreStaticScan ==
    \A t \in workers :
        (Returned(t) /\ result[t].success) => IsStaticScan(result[t].steps, Split(code[t]))

\* A loop body ran twice and is listed once.
C16_Witness ==
    \E t \in workers :
        /\ Returned(t) /\ result[t].success
        /\ Len(result[t].output) = 2
        /\ result[t].steps = <<[line |-> 1, code |-> <<"for i in range(2):">>],
                               [line |-> 2, code |-> <<" ", "print(i)">>]>>

\* C17: a run whose Program wrote nothing returns output [], and no run
\* returns the output [""].
C17_NoOutputIsEmptyList ==
    \A t \in workers :
        Returned(t) => /\ printed[t] = NoText => result[t].output = <<>>
                       /\ result[t].output # <<NoText>>

\* split('\n') of the captured text with one trailing empty line discarded.
DropTrailingEmpty(ls) ==
    IF ls # <<>> /\ Last(ls) = NoText THEN SubSeq(ls, 1, Len(ls) - 1) ELSE ls

\* C18: the output of a successful run is the text its Program wrote, split on
\* line breaks, less one trailing empty line: blank lines and the whitespace
\* around printed lines are kept.
C18_OutputKeepsWhitespace ==
    \A t \in workers :
        (Returned(t) /\ result[t].success)
            => result[t].output = DropTrailingEmpty(Split(printed[t]))

\* Scenario A of the specification.
ScenarioA == Join(<<<<"x = 5">>, <<"print(x)">>>>)

\* C19: the variables of a successful run map exactly the names without a
\* leading underscore that its Program bound to the repr() of their final
\* values, so no name the Program did not bind; x = 5, print(x) gives
\* variables {x: "5"} and output ["5"].
C19_VariablesAreFinalBindings ==
    \A t \in workers :
        (Returned(t) /\ result[t].success) =>
            /\ DOMAIN result[t].variables = DOMAIN local_vars[t] \ UnderscoreNames
            /\ \A n \in DOMAIN result[t].variables :
                   result[t].variables[n] = Repr(local_vars[t][n])
            /\ DOMAIN result[t].variables \subseteq Targets(frame[t].prog)
            /\ code[t] = ScenarioA =>
                   /\ result[t].variables = [n \in {"x"} |-> <<"5">>]
                   /\ result[t].output = << <<"5">> >>

C19_Witness ==
    \E t \in workers :
        /\ Returned(t) /\ code[t] = ScenarioA
        /\ result[t].variables = [n \in {"x"} |-> <<"5">>]
        /\ result[t].output = << <<"5">> >>

\* The statement binds a name to a call of input with at most one argument.
IsInputCall(st) ==
    /\ st.op = "assign" /\ st.expr.e = "call"
    /\ st.expr.fn.e = "name" /\ st.expr.fn.id = "input"
    /\ Len(st.expr.args) <= 1

\* C20: the step that evaluates x = input(p) or x = input(), in a run that has
\* not rebound input, raises nothing and binds x to p itself or to the empty
\* string; it reads nothing.
C20_InputReturnsPrompt ==
    [][\A t \in workers :
          (/\ pc[t] = "exec" /\ frame'[t] # frame[t]
           /\ IsInputCall(Current(frame[t]))
           /\ "input" \notin DOMAIN local_vars[t])
          => /\ exc'[t] = NoExc
             /\ local_vars'[t][Current(frame[t]).name] =
                    IF Current(frame[t]).expr.args = <<>> THEN StrV(NoText)
                    ELSE Current(frame[t]).expr.args[1].v]_vars

C20_Witness ==
    \E t \in workers :
        /\ Returned(t) /\ result[t].success /\ code[t] = <<"x = input('p')">>
        /\ local_vars[t]["x"] = StrV(<<"p">>)

\* The state of the run a thread is serving, read from the handler's position
\* and the success flag of its result.
RunState(p, success) ==
    CASE p = "idle" -> "Idle"
      [] p = "done" -> IF success THEN "Succeeded" ELSE "Failed"
      [] p = "raised" -> "Escaped"
      [] OTHER -> "Running"

\* The moves of a run; the last two are the end of the request, after which
\* the thread is Idle for a fresh run.
RunMoves ==
    {<<"Idle", "Running">>, <<"Running", "Running">>, <<"Running", "Succeeded">>,
     <<"Running", "Failed">>, <<"Succeeded", "Idle">>, <<"Failed", "Idle">>}

\* C21: every step of a thread is a move Idle -> Running -> Succeeded or
\* Idle -> Running -> Failed of its run, and a result that has been returned
\* does not change any more.
C21_RunStateMachine ==
    [][\A t \in workers :
          /\ (pc'[t] # pc[t] \/ result'[t] # result[t]) =>
                 <<RunState(pc[t], result[t].success),
                   RunState(pc'[t], result'[t].success)>> \in RunMoves
          /\ (pc[t] = "done" /\ pc'[t] = "done") => result'[t] = result[t]]_vars

\* C22: a run that has entered the handler eventually leaves Running.
C22_RunLeavesRunning ==
    \A t \in Threads : (pc[t] = "redirect") ~> (pc[t] \in {"done", "raised"})

\* C23: once a statement has faulted, the evaluator takes no further step of
\* the run: the position, the bindings and the text the run has printed stay
\* as the faulting statement left them until the handler's locals die.
C23_FaultEndsRun ==
    [][\A t \in workers :
          exc[t] # NoExc =>
              /\ pc[t] # "exec"
              /\ pc'[t] # "idle" =>
                     /\ frame'[t] = frame[t]
                     /\ local_vars'[t] = local_vars[t]
                     /\ printed'[t] = printed[t]]_vars

\* print(undefined_name), x = 5 has returned: x was never bound.
C23_Witness ==
    \E t \in workers :
        /\ Returned(t) /\ exc[t].cls = "NameError"
        /\ ~Finished(frame[t]) /\ frame[t].prog[frame[t].ip] = Grammar["x = 5"]
        /\ "x" \notin DOMAIN local_vars[t] /\ printed[t] = NoText
        /\ result[t].variables = Empty /\ result[t].output = <<>>

\* Statement k of prog is for <name> in range(n) with a literal n >= 1.
IsRangedLoop(prog, k) ==
    /\ prog[k].op = "for" /\ prog[k].expr.e = "call"
    /\ prog[k].expr.fn = Name("range") /\ Len(prog[k].expr.args) = 1
    /\ prog[k].expr.args[1].e = "const" /\ prog[k].expr.args[1].v.t = "int"
    /\ prog[k].expr.args[1].v.v >= 1

\* The last value the loop at statement k gives its variable, as rendered.
LastLoopValue(prog, k) == Repr(IntV(prog[k].expr.args[1].v.v - 1))

\* The names bound by the block of statement k and by the other statements.
BoundElsewhere(prog, k) ==
    UNION {TargetsOf(prog[k].body[j]) : j \in DOMAIN prog[k].body}
        \cup UNION {Targets(<<prog[j]>>) : j \in DOMAIN prog \ {k}}

\* C24 as stated: after a successful run every ranged loop for i in range(n),
\* n >= 1, whose variable has no leading underscore has left i = n - 1 in
\* variables.
C24_LoopVariableIsLastValue ==
    \A t \in workers :
        (Returned(t) /\ result[t].success) =>
            \A k \in DOMAIN frame[t].prog :
                (IsRangedLoop(frame[t].prog, k)
                 /\ ~StartsWithUnderscore(frame[t].prog[k].name)) =>
                    /\ frame[t].prog[k].name \in DOMAIN result[t].variables
                    /\ result[t].variables[frame[t].prog[k].name] =
                           LastLoopValue(frame[t].prog, k)

\* C24, amended: the same for a loop variable that nothing else in the Program
\* binds, neither the loop's block nor another statement; a loop variable with
\* a leading underscore is not in variables.
C24_UnboundElsewhereIsLastValue ==
    \A t \in workers :
        (Returned(t) /\ result[t].success) =>
            \A k \in DOMAIN frame[t].prog :
                (IsRangedLoop(frame[t].prog, k)
                 /\ frame[t].prog[k].name \notin BoundElsewhere(frame[t].prog, k)) =>
                    IF StartsWithUnderscore(frame[t].prog[k].name)
                    THEN frame[t].prog[k].name \notin DOMAIN result[t].variables
                    ELSE /\ frame[t].prog[k].name \in DOMAIN result[t].variables
                         /\ result[t].variables[frame[t].prog[k].name] =
                                LastLoopValue(frame[t].prog, k)

\* for i in range(2): print(i) has returned i = "1" after printing 0 and 1.
C24_Witness ==
    \E t \in workers :
        /\ Returned(t) /\ result[t].success
        /\ code[t] = Join(<<<<"for i in range(2):">>, <<" ", "print(i)">>>>)
        /\ result[t].variables = [n \in {"i"} |-> <<"1">>]
        /\ result[t].output = << <<"0">>, <<"1">> >>

\* The print calls behind a written text: print ends what it writes with one
\* line break, and no value the modelled texts print holds a line break.
PrintCalls(text) == Cardinality({k \in DOMAIN text : text[k] = "\n"})

\* C25: the output of a successful run has as many entries as its Program
\* executed print calls.
C25_OneEntryPerPrintCall ==
    \A t \in workers :
        (Returned(t) /\ result[t].success)
            => Len(result[t].output) = PrintCalls(printed[t])

\* C26: when no run is in the handler, sys.stdout is the original sink.
C26_OriginalSinkWhenAllReturned ==
    (\A t \in workers : pc[t] = "idle") => sys_stdout = 0

\* C27: a Program that succeeds when it is run alone is returned with
\* success = true, whatever other runs are in the handler.
C27_SucceedsAloneSucceeds ==
    \A t \in workers :
        (Returned(t) /\ \A a \in Addresses : FirstRun(code[t], a).success)
            => result[t].success

\* The log lines of the other handlers that a text holds.
LogsIn(text) == Cardinality({k \in DOMAIN text : text[k] = HostLog})

\* C28: no line of a returned output holds what another handler printed, and
\* every line the other handlers printed is on the original sink.
C28_HostPrintsKeptApart ==
    /\ \A t \in workers :
           Returned(t) => \A k \in DOMAIN result[t].output : LogsIn(result[t].output[k]) = 0
    /\ LogsIn(terminal) = logged

\* C29: in every run each primitive of the palette resolves in the dict that
\* exec() was given, and the palette text x = round(1) does not fail.
C29_PalettePrimitivesExposed ==
    \A t \in workers :
        /\ pc[t] = "exec" =>
               \A n \in PalettePrimitives : Lookup(n, Empty, frame[t].builtins).exc = NoExc
        /\ (Returned(t) /\ code[t] = <<"x = round(1)">>) => result[t].success

====
